---- MODULE Spec2Model ----
(***************************************************************************)
(* ClaimGuard Namibia front end: the Batch Upload page (processBatchUpload *)
(* and its helpers), the New Claim form (submitClaim), the Claims list and *)
(* the Dashboard, against the claims / predict REST endpoints.             *)
(*                                                                         *)
(* Strings are TLA+ strings.  Where the code looks inside a string         *)
(* (parseInt, parseFloat, trim) the model goes through Spell, which gives  *)
(* the characters of every string the inputs can hold.                     *)
(* Numbers with a fraction are kept in hundredths (Scale).                 *)
(***************************************************************************)
EXTENDS Integers, Sequences, FiniteSets, TLC

\* ------------------------------------------------------------------ bounds
\* data lines of an uploaded CSV file
MaxLines == 2
\* createClaim requests issued in one behaviour (batch rows and form submissions)
MaxCalls == 2

\* a submission of the New Claim form starts only while the form has made fewer
\* requests than this
MaxFormCalls == 2

\* the claims other clients store while a page of figures is shown
MaxRows == 2

\* the times the clock advances in a run
MaxTicks == 3

\* the requests made of apiService on its own
MaxRequests == 1

\* the filter changes (the first render among them) and the calls of
\* fetchReportsData of a session on the Reports page, together
MaxEvents == 5

\* the calls of fetchClaims that await their response at a time
MaxClaimFetches == 2

\* ------------------------------------------------------- program constants
\* hundredths: the unit of every number that may carry a fraction
Scale == 100
\* generateClaimId keeps the last six digits of Date.now()
IdDigits == 6
\* the fraud-risk bar of the Claims list
BarHigh == 70
BarMedium == 40

\* --------------------------------------------------------------- strings
Digits == <<"0", "1", "2", "3", "4", "5", "6", "7", "8", "9">>

IsDigit(c) == \E d \in 1..10 : Digits[d] = c

DigitVal(c) == (CHOOSE d \in 1..10 : Digits[d] = c) - 1

\* The characters of the strings that reach parseInt, parseFloat or trim.
Spell(s) ==
    CASE s = "" -> <<>>
      [] s = "  " -> <<" ", " ">>
      [] s = "0" -> <<"0">>
      [] s = "1" -> <<"1">>
      [] s = "2" -> <<"2">>
      [] s = "4" -> <<"4">>
      [] s = "5" -> <<"5">>
      [] s = "6" -> <<"6">>
      [] s = "15" -> <<"1", "5">>
      [] s = "30" -> <<"3", "0">>
      [] s = " 30" -> <<" ", "3", "0">>
      [] s = "45" -> <<"4", "5">>
      [] s = "60" -> <<"6", "0">>
      [] s = "3.5" -> <<"3", ".", "5">>
      [] s = "1e2" -> <<"1", "e", "2">>
      [] s = "0.85" -> <<"0", ".", "8", "5">>
      [] s = "0.90" -> <<"0", ".", "9", "0">>
      [] s = "0.75" -> <<"0", ".", "7", "5">>
      [] s = "2.5" -> <<"2", ".", "5">>
      [] s = "1.2" -> <<"1", ".", "2">>
      [] s = "8.5" -> <<"8", ".", "5">>
      [] s = "abc" -> <<"a", "b", "c">>
      [] s = "12abc" -> <<"1", "2", "a", "b", "c">>
      [] s = "true" -> <<"t", "r", "u", "e">>
      [] s = "false" -> <<"f", "a", "l", "s", "e">>
      [] s = "yes" -> <<"y", "e", "s">>

Spelled ==
    {"", "  ", "0", "1", "2", "4", "5", "6", "15", "30", " 30", "45", "60", "3.5", "1e2",
     "0.85", "0.90", "0.75", "2.5", "1.2", "8.5", "abc", "12abc", "true", "false", "yes"}

RECURSIVE SkipSpaces(_)
SkipSpaces(cs) ==
    IF cs # <<>> /\ Head(cs) = " " THEN SkipSpaces(Tail(cs)) ELSE cs

RECURSIVE DropTrailingSpaces(_)
DropTrailingSpaces(cs) ==
    IF cs # <<>> /\ cs[Len(cs)] = " "
    THEN DropTrailingSpaces(SubSeq(cs, 1, Len(cs) - 1))
    ELSE cs

\* String.prototype.trim; a string whose characters the model does not spell has
\* no surrounding blanks.
TrimOf ==
    [s \in Spelled |->
        CHOOSE t \in Spelled : Spell(t) = DropTrailingSpaces(SkipSpaces(Spell(s)))]

Trim(s) == IF s \in Spelled THEN TrimOf[s] ELSE s

\* the longest prefix of cs made of digits
RECURSIVE DigitPrefix(_)
DigitPrefix(cs) ==
    IF cs # <<>> /\ IsDigit(Head(cs))
    THEN <<Head(cs)>> \o DigitPrefix(Tail(cs))
    ELSE <<>>

RECURSIVE DigitsValue(_)
DigitsValue(ds) ==
    IF ds = <<>> THEN 0
    ELSE 10 * DigitsValue(SubSeq(ds, 1, Len(ds) - 1)) + DigitVal(ds[Len(ds)])

RECURSIVE Pow10(_)
Pow10(n) == IF n <= 0 THEN 1 ELSE 10 * Pow10(n - 1)

NaN == [nan |-> TRUE, val |-> 0]

Num(v) == [nan |-> FALSE, val |-> v]

IsNegative(cs) == cs # <<>> /\ Head(cs) = "-"

\* cs without its sign
Unsigned(cs) == IF cs # <<>> /\ Head(cs) \in {"-", "+"} THEN Tail(cs) ELSE cs

Signed(v, neg) == IF neg THEN 0 - v ELSE v

IntOfDigits(ds, neg) == IF ds = <<>> THEN NaN ELSE Num(Signed(DigitsValue(ds), neg))

ParseIntChars(cs) == IntOfDigits(DigitPrefix(Unsigned(cs)), IsNegative(cs))

\* parseInt(s), radix 10: leading blanks, an optional sign, then digits; whatever
\* follows the digits is ignored.  val is in units.
ParseIntOf == [s \in Spelled |-> ParseIntChars(SkipSpaces(Spell(s)))]

ParseInt(s) == ParseIntOf[s]

\* the value of the integer digits ip, the fraction digits fp and the exponent
\* digits ed, in hundredths (fraction digits beyond the second are cut, none of
\* the spelled strings has one)
FloatValue(ip, fp, ed, neg) ==
    IF ip = <<>> /\ fp = <<>> THEN NaN
    ELSE Num(Signed((DigitsValue(ip) * Scale + DigitsValue(SubSeq(fp \o <<"0", "0">>, 1, 2)))
                        * Pow10(DigitsValue(ed)), neg))

\* rest: what follows the mantissa
FloatExponent(ip, fp, rest, neg) ==
    FloatValue(ip, fp,
               IF rest # <<>> /\ Head(rest) \in {"e", "E"} THEN DigitPrefix(Tail(rest)) ELSE <<>>,
               neg)

\* afterDot: what follows the decimal point
FloatFraction(ip, fp, afterDot, neg) ==
    FloatExponent(ip, fp, SubSeq(afterDot, Len(fp) + 1, Len(afterDot)), neg)

\* rest: what follows the integer digits
FloatMantissa(ip, rest, neg) ==
    IF rest # <<>> /\ Head(rest) = "."
    THEN FloatFraction(ip, DigitPrefix(Tail(rest)), Tail(rest), neg)
    ELSE FloatExponent(ip, <<>>, rest, neg)

FloatOfBody(ip, body, neg) == FloatMantissa(ip, SubSeq(body, Len(ip) + 1, Len(body)), neg)

ParseFloatChars(cs) == FloatOfBody(DigitPrefix(Unsigned(cs)), Unsigned(cs), IsNegative(cs))

\* parseFloat(s): leading blanks, an optional sign, digits, an optional fraction,
\* an optional exponent.  val is in hundredths.
ParseFloatOf == [s \in Spelled |-> ParseFloatChars(SkipSpaces(Spell(s)))]

ParseFloat(s) == ParseFloatOf[s]

\* isNaN of a parse result
IsNaN(n) == n.nan

\* ------------------------------------------------------------ CSV files
\* the header line of csvTemplate, which is also validateClaim's requiredFields
requiredFields ==
    <<"claim_id", "age_group", "gender", "marital_status", "income_band",
      "employment_status", "address_change_last_6_months", "deductible_level",
      "days_policy_accident", "days_policy_claim", "past_number_of_claims",
      "vehicle_category", "vehicle_price_range", "vehicle_age_years",
      "accident_area", "police_report_filed", "witness_present",
      "weather_condition", "accident_time", "agent_type", "claim_amendments",
      "address_change_linked_to_claim", "claim_amount_range",
      "payout_to_claim_ratio", "claim_channel", "repair_shop_pattern",
      "fraud_percentage_estimate", "fraud_type", "high_risk_combination", "region">>

\* the three data lines of csvTemplate, split at the commas
csvTemplate ==
    <<
      <<"CLM-BATCH-001", "25-35", "Male", "Single", "Medium", "Employed", "false",
        "Medium", "30", "15", "0", "Private", "150000-200000", "4", "Urban", "true",
        "true", "Clear", "Day", "Direct", "0", "false", "15000-25000", "0.85",
        "Online", "Standard", "2.5", "None", "false", "Windhoek">>,
      <<"CLM-BATCH-002", "35-45", "Female", "Married", "High", "Employed", "false",
        "High", "45", "30", "1", "Private", "100000-150000", "5", "Suburban", "true",
        "false", "Clear", "Night", "Agent", "1", "false", "10000-20000", "0.90",
        "Phone", "Standard", "1.2", "None", "false", "Swakopmund">>,
      <<"CLM-BATCH-003", "45-55", "Male", "Married", "Medium", "Self-employed", "true",
        "Low", "60", "45", "2", "Commercial", "200000-250000", "6", "Rural", "true",
        "true", "Cloudy", "Day", "Agent", "2", "true", "25000-35000", "0.75",
        "Online", "High-risk", "8.5", "Staged", "true", "Walvis Bay">>
    >>

FieldIndex(f) == CHOOSE k \in 1..Len(requiredFields) : requiredFields[k] = f

\* the line with the cell of column f replaced by v
WithCell(line, f, v) == [line EXCEPT ![FieldIndex(f)] = v]

\* The lines an uploaded file is made of: a template line as it is, one with an
\* empty required cell, one with a word where a number belongs, one with a
\* number followed by letters where a number belongs, and a line of blanks.
CandidateLines ==
    { csvTemplate[1],
      WithCell(csvTemplate[2], "region", ""),
      WithCell(csvTemplate[3], "days_policy_accident", "abc"),
      WithCell(csvTemplate[3], "days_policy_accident", "12abc"),
      <<"  ">> }

RECURSIVE SeqsUpTo(_, _)
SeqsUpTo(S, n) ==
    IF n = 0 THEN {<<>>}
    ELSE LET shorter == SeqsUpTo(S, n - 1)
         IN  shorter \cup {Append(q, x) : q \in {r \in shorter : Len(r) = n - 1}, x \in S}

\* A file offered to the page: its type, and its text as a header line followed
\* by data lines, every line already split at the commas.
CsvFiles ==
    {[csv |-> TRUE, lines |-> <<requiredFields>> \o ls] : ls \in SeqsUpTo(CandidateLines, MaxLines)}

\* the number of claims the page says an upload may hold
UploadLimit == 1000

\* a file of one claim more than that, each with an empty required cell
LongFile ==
    [csv |-> TRUE,
     lines |-> <<requiredFields>> \o
               [k \in 1..(UploadLimit + 1) |-> WithCell(csvTemplate[2], "region", "")]]

\* the files a session can have on its disk
DiskFiles == CsvFiles \cup {LongFile}

\* a file that is no CSV file
OtherFile == [csv |-> FALSE, lines |-> <<<<"%PDF-1.4">>>>]

\* selectedFile = null
NoFile == [csv |-> FALSE, lines |-> <<>>]

\* lines[i].trim() is empty: the line holds blanks only (a line with a comma in
\* it has at least two cells)
IsBlankLine(line) == Len(line) = 1 /\ Trim(line[1]) = ""

\* value of obj[f] with JavaScript's undefined for an absent key
Undefined == "<undefined>"

Get(obj, f) == IF f \in DOMAIN obj THEN obj[f] ELSE Undefined

\* the row object parseCSV builds from line i (0-based index i of lines)
ParseRow(headers, line, i) ==
    [f \in {Trim(headers[k]) : k \in 1..Len(headers)} \cup {"rowNumber"} |->
        IF f = "rowNumber" THEN i
        ELSE LET k == CHOOSE j \in 1..Len(headers) :
                        /\ Trim(headers[j]) = f
                        /\ \A j2 \in (j + 1)..Len(headers) : Trim(headers[j2]) # f
             IN  IF k <= Len(line) /\ Trim(line[k]) # "" THEN Trim(line[k]) ELSE ""]

\* the numbers i of the lines the loop keeps: those that are not blank
KeptLines(lines) ==
    LET kept(i) == ~IsBlankLine(lines[i + 1])
    IN  SelectSeq([i \in 1..(Len(lines) - 1) |-> i], kept)

\* one row for each of them, in their order
ParseLines(headers, lines, kept) ==
    [k \in 1..Len(kept) |-> ParseRow(headers, lines[kept[k] + 1], kept[k])]

\* parseCSV(csvText)
parseCSV(lines) == ParseLines(lines[1], lines, KeptLines(lines))

\* ---------------------------------------------------------- validateClaim
\* !claim[field] && claim[field] !== 0 && claim[field] !== false, on a row whose
\* values are strings
\* a check that takes only an absent cell for missing, not an empty one
IsMissingMutant(claim, f) == Get(claim, f) = Undefined

IsMissing(claim, f) == Get(claim, f) \in {"", Undefined}

\* JavaScript truthiness of a row value
Truthy(v) == v \notin {"", Undefined}

IntegerFields ==
    <<"days_policy_accident", "days_policy_claim", "past_number_of_claims",
      "vehicle_age_years", "claim_amendments">>

DecimalFields == <<"payout_to_claim_ratio", "fraud_percentage_estimate">>

BooleanFields ==
    <<"address_change_last_6_months", "police_report_filed", "witness_present",
      "address_change_linked_to_claim", "high_risk_combination">>

MissingErrors(claim) ==
    LET missing(f) == IsMissing(claim, f)
    IN  [k \in 1..Len(SelectSeq(requiredFields, missing)) |->
            <<"Missing required field", SelectSeq(requiredFields, missing)[k]>>]

IntegerErrors(claim) ==
    LET bad(f) == Truthy(Get(claim, f)) /\ IsNaN(ParseInt(Get(claim, f)))
    IN  [k \in 1..Len(SelectSeq(IntegerFields, bad)) |->
            <<"must be a number", SelectSeq(IntegerFields, bad)[k]>>]

DecimalErrors(claim) ==
    LET bad(f) == Truthy(Get(claim, f)) /\ IsNaN(ParseFloat(Get(claim, f)))
    IN  [k \in 1..Len(SelectSeq(DecimalFields, bad)) |->
            <<"must be a decimal number", SelectSeq(DecimalFields, bad)[k]>>]

BooleanErrors(claim) ==
    LET bad(f) == Truthy(Get(claim, f)) /\ Get(claim, f) \notin {"true", "false"}
    IN  [k \in 1..Len(SelectSeq(BooleanFields, bad)) |->
            <<"must be true or false", SelectSeq(BooleanFields, bad)[k]>>]

\* validateClaim(claim): the messages, in the order the code pushes them
validateClaim(claim) ==
    MissingErrors(claim) \o IntegerErrors(claim) \o DecimalErrors(claim) \o BooleanErrors(claim)

\* ------------------------------------------------------------ identifiers
\* A claim identifier: a text (a CSV cell, or a prefix) and a number that follows
\* it.  "CLM-" with n is what generateClaimId builds, "Row " with n is the
\* claimId of a result entry whose row has no claim_id.
TextId(s) == [text |-> s, n |-> 0]

RowId(i) == [text |-> "Row ", n |-> i]

ClmId(n) == [text |-> "CLM-", n |-> n]

NoId == TextId("")

\* --------------------------------------------------------------- state
VARIABLES
    \* the page the session shows
    page,
    \* BatchUpload: useState
    uploadProgress, isProcessing, uploadResults, selectedFile, error, success,
    \* processBatchUpload: where the running call stands, and its locals
    bpc, claims, bi, results, result,
    \* the CSV file the user works with in this session
    disk,
    \* the entries the user has for the New Claim form in this session
    answers,
    \* NewClaim: useState
    currentStep, isSubmitting, submissionResult, formData,
    \* submitClaim: where the running call stands, and its locals
    fpc, claimData, fresult,
    \* Date.now(), in milliseconds since the start of the session's 1000 s window
    now,
    \* Claims: useState, where fetchClaims stands, and the response the list shows
    claimsData, claimsLoading, claimsError, cpc, fetched,
    \* Claims: useState of the two filters (selectedRegion, selectedRisk); the calls
    \* of fetchClaims that await their response, oldest first; how the newest call
    \* stands; and the request whose response claimsData holds
    claimsRegion, claimsRisk, claimFetches, claimsLatest, claimsShown,
    \* Dashboard: useState, where fetchDashboardData stands, and the rows that
    \* existed when its queries were answered
    dashboardStats, dashboardClaims, dashboardLoading, dpc, queried,
    \* the back end: the claim rows and the prediction rows
    dbClaims, dbPreds, assignsIds,
    \* every createClaim and predictFraud request issued, with its outcome
    calls,
    \* the time, in milliseconds since the page was opened, and how often it advanced
    clock, ticks,
    \* apiService on its own: the requests made of it, each with its progress
    reqs,
    \* Reports: useState; loading, and for each of the three data states the call
    \* of fetchReportsData whose response it holds (0: the initial value)
    selectedPeriod, selectedRegion, selectedRisk, reportsLoading,
    reportData, regionalData, summaryStats,
    \* Reports: the pending timers of the effect, the times the effect ran, and the
    \* calls of fetchReportsData
    timers, changes, fetches

batchVars == <<uploadProgress, isProcessing, uploadResults, selectedFile, error, success,
               bpc, claims, bi, results, result, disk>>

formVars == <<currentStep, isSubmitting, submissionResult, formData, fpc, claimData, fresult, now>>

viewVars == <<claimsData, claimsLoading, claimsError, cpc, fetched,
              claimsRegion, claimsRisk, claimFetches, claimsLatest, claimsShown,
              dashboardStats, dashboardClaims, dashboardLoading, dpc, queried>>

backendVars == <<dbClaims, dbPreds, assignsIds>>

serviceVars == <<clock, ticks, reqs>>

reportVars == <<selectedPeriod, selectedRegion, selectedRisk, reportsLoading,
                reportData, regionalData, summaryStats, timers, changes, fetches>>

vars == <<page, answers, batchVars, formVars, viewVars, backendVars, calls, serviceVars, reportVars>>

Null == "<null>"

\* the score the classifier returns to this client, in thousandths (the scores of
\* the rows the views read are Scores)
Probs == {750}

\* ------------------------------------------------------------- back end
\* POST /api/claims: the row is stored under the identifier it came with, or
\* under one the back end generates, and that identifier is returned
StoredId(sent) == IF assignsIds THEN [text |-> "SRV-", n |-> Len(dbClaims) + 1] ELSE sent

\* (req: the request that brought the row)
StoreClaim(data, sent, req) ==
    Append(dbClaims, [claim_id |-> StoredId(sent), data |-> data, req |-> req])

ClaimExists(id) == \E k \in 1..Len(dbClaims) : dbClaims[k].claim_id = id

\* POST /api/claims/<id>/predict: one prediction row for the claim
StorePrediction(id, p) == Append(dbPreds, [claim_id |-> id, fraud_probability |-> p])

\* ------------------------------------------------------- HttpClient.request
\* how a request ends: a 2xx response, another response, no response in time
Responses == {"200", "500", "timeout"}

\* a client that takes every response for a success
ResolvesMutant(resp) == resp \in {"200", "500"}

\* the promise resolves: response.ok, and nothing thrown by fetch
Resolves(resp) == resp = "200"

\* the back end has handled the request: always when it answers 2xx, never when
\* it answers with an error, and either way when the answer does not arrive
Handled(resp, done) == (resp = "200" => done) /\ (resp = "500" => ~done)

\* a request as the log keeps it; `of` is the place in the log of the createClaim
\* request of the same submission, `input` the form as it was submitted
Request(op, src, row, id, of) ==
    [op |-> op, src |-> src, cur |-> TRUE, row |-> row, id |-> id, of |-> of,
     state |-> "pending", ret |-> NoId, input |-> <<>>]

Settle(log, k, resp, ret) ==
    [log EXCEPT ![k].state = resp, ![k].ret = IF Resolves(resp) THEN ret ELSE NoId]

Pending(src) == {k \in 1..Len(calls) : calls[k].src = src /\ calls[k].state = "pending"}

\* how the n requests of one Promise.all end, each in its own way: resolved, or
\* rejected (a request without an answer is rejected as one answered 500 is)
Outcomes(n) == [1..n -> {"200", "500"}]

\* one of the requests was rejected
SomeFails(rs) == \E i \in DOMAIN rs : ~Resolves(rs[i])

\* a Promise.all that looks at its first promise only
AllResolveMutant(rs) == Resolves(rs[1])

\* Promise.all(rs) resolves: when every one of its promises does
AllResolve(rs) == \A i \in DOMAIN rs : Resolves(rs[i])

CreateCount == Cardinality({k \in 1..Len(calls) : calls[k].op = "createClaim"})

\* ------------------------------------------------- processBatchUpload
\* Math.round(((i + 1) / n) * 100), done rows out of n
Progress(done, n) == (200 * done + n) \div (2 * n)

\* an entry that reports a failure as a warning
ErrorEntryMutant(claim, message) ==
    [row |-> claim.rowNumber,
     claimId |-> IF Get(claim, "claim_id") \notin {"", Undefined} THEN [text |-> claim.claim_id, n |-> 0]
                 ELSE [text |-> "Row ", n |-> claim.rowNumber],
     status |-> "warning", message |-> message]

ErrorEntry(claim, message) ==
    [row |-> claim.rowNumber,
     claimId |-> IF Truthy(Get(claim, "claim_id")) THEN TextId(claim.claim_id)
                 ELSE RowId(claim.rowNumber),
     status |-> "error", message |-> message]

\* The loop from row i (0-based) up to the row that needs createClaim, or to the
\* end: a row that fails validation gets its error entry and the loop goes on.
\* parseCSV on the text of each file
Parsed == [csvText \in {f.lines : f \in DiskFiles} |-> parseCSV(csvText)]

\* const claims = parseCSV(csvText)
claimsOf(csvText) == Parsed[csvText]

\* the rows the lines of a file parse to, without their row numbers
ParsedRows ==
    {ParseRow(requiredFields, line, 0) : line \in {ln \in CandidateLines : ~IsBlankLine(ln)}}

\* validateClaim on each of them
Validated == [row \in ParsedRows |-> validateClaim(row)]

\* const validationErrors = validateClaim(claim)
validationErrors(claim) == Validated[[claim EXCEPT !.rowNumber = 0]]

IsValid(claim) == Len(validationErrors(claim)) = 0

\* a loop that a row failing validation brings to its end
NextValidMutant(cl, i) == IF i < Len(cl) /\ IsValid(cl[i + 1]) THEN i ELSE Len(cl)

\* the first row after the i-th that passes validation, less one; Len(cl) if none
NextValid(cl, i) ==
    IF \E j \in (i + 1)..Len(cl) : IsValid(cl[j])
    THEN (CHOOSE j \in (i + 1)..Len(cl) :
             /\ IsValid(cl[j])
             /\ \A j2 \in (i + 1)..(j - 1) : ~IsValid(cl[j2])) - 1
    ELSE Len(cl)

AdvanceTo(cl, i, res, stop) ==
    [i |-> stop,
     results |-> res \o [k \in 1..(stop - i) |->
                            ErrorEntry(cl[i + k], validationErrors(cl[i + k]))]]

Advance(cl, i, res) == AdvanceTo(cl, i, res, NextValid(cl, i))

CountStatus(res, st) == Cardinality({k \in 1..Len(res) : res[k].status = st})

\* a loop that issues createClaim for a row a second time without awaiting the first
ContinueAtMutant(cl, adv, log) ==
    IF adv.i >= Len(cl)
    THEN /\ uploadProgress' = Progress(Len(cl), Len(cl))
         /\ uploadResults' = adv.results
         /\ success' = [successful |-> CountStatus(adv.results, "success"),
                        warnings |-> CountStatus(adv.results, "warning"),
                        errors |-> CountStatus(adv.results, "error")]
         /\ isProcessing' = FALSE
         /\ bpc' = "idle"
         /\ claims' = <<>>
         /\ bi' = 0
         /\ results' = <<>>
         /\ calls' = log
         /\ UNCHANGED <<selectedFile, error, result>>
    ELSE /\ uploadProgress' = IF adv.i > 0 THEN Progress(adv.i, Len(cl)) ELSE uploadProgress
         /\ bpc' = "createClaim"
         /\ claims' = cl
         /\ bi' = adv.i
         /\ results' = adv.results
         /\ calls' = log \o
                [k \in 1..2 |-> Request("createClaim", "batch", cl[adv.i + 1].rowNumber,
                                        TextId(cl[adv.i + 1].claim_id), Len(log) + 1)]
         /\ UNCHANGED <<uploadResults, success, isProcessing, selectedFile, error, result>>

\* The loop stands at adv (Advance's result) with the request log `log`: it
\* ends (setUploadResults, setSuccess, finally) or awaits createClaim.
ContinueAt(cl, adv, log) ==
    IF adv.i >= Len(cl)
    THEN /\ uploadProgress' = Progress(Len(cl), Len(cl))
         /\ uploadResults' = adv.results
         /\ success' = [successful |-> CountStatus(adv.results, "success"),
                        warnings |-> CountStatus(adv.results, "warning"),
                        errors |-> CountStatus(adv.results, "error")]
         /\ isProcessing' = FALSE
         /\ bpc' = "idle"
         /\ claims' = <<>>
         /\ bi' = 0
         /\ results' = <<>>
         /\ calls' = log
         /\ UNCHANGED <<selectedFile, error, result>>
    ELSE /\ uploadProgress' = IF adv.i > 0 THEN Progress(adv.i, Len(cl)) ELSE uploadProgress
         /\ bpc' = "createClaim"
         /\ claims' = cl
         /\ bi' = adv.i
         /\ results' = adv.results
         /\ calls' = Append(log, Request("createClaim", "batch", cl[adv.i + 1].rowNumber,
                                         TextId(cl[adv.i + 1].claim_id), Len(log) + 1))
         /\ UNCHANGED <<uploadResults, success, isProcessing, selectedFile, error, result>>

\* the loop goes on from row i (0-based) with the entries res
Continue(cl, i, res, log) == ContinueAt(cl, Advance(cl, i, res), log)

\* <input type="file"> onChange with a file chosen
handleFileSelect(file) ==
    /\ page = "BatchUpload"
    /\ IF file.csv
       THEN /\ selectedFile' = file
            /\ error' = Null
            /\ success' = Null
            /\ uploadResults' = <<>>
       ELSE /\ error' = "Please select a CSV file"
            /\ selectedFile' = NoFile
            /\ UNCHANGED <<success, uploadResults>>
    /\ UNCHANGED <<page, answers, serviceVars, reportVars, viewVars, uploadProgress, isProcessing, bpc, claims, bi, results, result, disk,
                   formVars, backendVars, calls>>

\* the Clear Results button, shown while uploadResults is not empty
clearResults ==
    /\ page = "BatchUpload"
    /\ Len(uploadResults) > 0
    /\ uploadResults' = <<>>
    /\ selectedFile' = NoFile
    /\ uploadProgress' = 0
    /\ error' = Null
    /\ success' = Null
    /\ UNCHANGED <<page, answers, serviceVars, reportVars, viewVars, isProcessing, bpc, claims, bi, results, result, disk,
                   formVars, backendVars, calls>>

\* the Process Upload button (shown while a file is selected, nothing is being
\* processed and no results are shown), up to await selectedFile.text()
processBatchUpload ==
    /\ page = "BatchUpload"
    /\ selectedFile # NoFile
    /\ ~isProcessing
    /\ Len(uploadResults) = 0
    /\ CreateCount + Cardinality({j \in 1..Len(claimsOf(selectedFile.lines)) :
                                    IsValid(claimsOf(selectedFile.lines)[j])}) <= MaxCalls
    /\ isProcessing' = TRUE
    /\ uploadProgress' = 0
    /\ error' = Null
    /\ success' = Null
    /\ uploadResults' = <<>>
    /\ bpc' = "text"
    /\ claims' = selectedFile.lines
    /\ calls' = [k \in 1..Len(calls) |->
                    IF calls[k].src = "batch" THEN [calls[k] EXCEPT !.cur = FALSE] ELSE calls[k]]
    /\ UNCHANGED <<page, answers, serviceVars, reportVars, viewVars, selectedFile, bi, results, result, disk, formVars, backendVars>>

\* selectedFile.text() resolves: parseCSV, then the loop up to its first await
BatchTextRead ==
    /\ bpc = "text"
    /\ IF Len(claimsOf(claims)) = 0
       THEN /\ error' = "Failed to process CSV file: No valid claims found in CSV file"
            /\ isProcessing' = FALSE
            /\ bpc' = "idle"
            /\ claims' = <<>>
            /\ UNCHANGED <<uploadProgress, uploadResults, selectedFile, success,
                           bi, results, result, calls>>
       ELSE Continue(claimsOf(claims), 0, <<>>, calls)
    /\ UNCHANGED <<page, answers, serviceVars, reportVars, viewVars, disk, formVars, backendVars>>

\* await apiService.createClaim(claim) settles
BatchCreateSettled ==
    /\ bpc = "createClaim"
    /\ \E k \in Pending("batch"), resp \in Responses, done \in BOOLEAN :
         /\ Handled(resp, done)
         /\ dbClaims' = IF done THEN StoreClaim(claims[bi + 1], calls[k].id, k) ELSE dbClaims
         /\ IF Resolves(resp)
            THEN \* const result = ...; predictFraud(result.claim_id) is issued
                 /\ result' = StoredId(calls[k].id)
                 /\ bpc' = "predictFraud"
                 /\ calls' = Append(Settle(calls, k, resp, StoredId(calls[k].id)),
                                    Request("predictFraud", "batch", claims[bi + 1].rowNumber,
                                            StoredId(calls[k].id), k))
                 /\ UNCHANGED <<uploadProgress, isProcessing, uploadResults, selectedFile,
                                error, success, claims, bi, results>>
            ELSE \* catch (apiError)
                 Continue(claims, bi + 1,
                          Append(results, ErrorEntry(claims[bi + 1], "API error")),
                          Settle(calls, k, resp, NoId))
    /\ UNCHANGED <<page, answers, serviceVars, reportVars, viewVars, disk, formVars, dbPreds, assignsIds>>

\* await apiService.predictFraud(result.claim_id) settles
BatchPredictSettled ==
    /\ bpc = "predictFraud"
    /\ \E k \in Pending("batch"), resp \in Responses, done \in BOOLEAN :
         /\ Handled(resp, done)
         /\ done => ClaimExists(calls[k].id)
         /\ \E p \in Probs :
              dbPreds' = IF done THEN StorePrediction(calls[k].id, p) ELSE dbPreds
         /\ Continue(claims, bi + 1,
                     Append(results,
                            [row |-> claims[bi + 1].rowNumber, claimId |-> result,
                             status |-> IF Resolves(resp) THEN "success" ELSE "warning",
                             message |-> IF Resolves(resp)
                                         THEN "Processed successfully with fraud prediction"
                                         ELSE "Claim created but prediction failed"]),
                     Settle(calls, k, resp, calls[k].id))
    /\ UNCHANGED <<page, answers, serviceVars, reportVars, viewVars, disk, formVars, dbClaims, assignsIds>>

\* ------------------------------------------------------------- NewClaim
steps ==
    <<"Personal Information", "Policy Information", "Vehicle Information",
      "Accident Information", "Claim Information", "Risk Assessment">>

\* the form with nothing entered: useState({ageGroup: "", ...})
EmptyForm ==
    [ageGroup |-> "", gender |-> "", maritalStatus |-> "", incomeBand |-> "",
     employmentStatus |-> "", addressChange |-> "", deductibleLevel |-> "",
     daysPolicyAccident |-> "", daysPolicyClaim |-> "", pastClaims |-> "",
     vehicleCategory |-> "", vehiclePriceRange |-> "", vehicleAge |-> "",
     accidentArea |-> "", policeReport |-> "", witnessPresent |-> "",
     weatherCondition |-> "", accidentTime |-> "", agentType |-> "",
     claimAmendments |-> "", addressChangeLinked |-> "", claimAmountRange |-> "",
     payoutRatio |-> "", claimChannel |-> "", repairShopPattern |-> "",
     fraudPercentage |-> "", fraudType |-> "", highRiskCombination |-> "", region |-> ""]

\* a form with every input filled in from the choices the page offers, the days
\* between policy and accident being d
FilledForm(d) ==
    [ageGroup |-> "26-35", gender |-> "male", maritalStatus |-> "single",
     incomeBand |-> "5000-15000", employmentStatus |-> "employed",
     addressChange |-> "no", deductibleLevel |-> "medium", daysPolicyAccident |-> d,
     daysPolicyClaim |-> "15", pastClaims |-> "1",
     vehicleCategory |-> "sedan", vehiclePriceRange |-> "100k-250k", vehicleAge |-> "5",
     accidentArea |-> "urban", policeReport |-> "yes", witnessPresent |-> "no",
     weatherCondition |-> "clear", accidentTime |-> "morning",
     agentType |-> "internal", claimAmendments |-> "0", addressChangeLinked |-> "no",
     claimAmountRange |-> "10k-50k", payoutRatio |-> "0.85", claimChannel |-> "online",
     repairShopPattern |-> "one-time",
     fraudPercentage |-> "2.5", fraudType |-> "none", highRiskCombination |-> "no",
     region |-> "khomas"]

\* What the user makes of the form: every input filled in, with a plain number,
\* a number in exponent notation or a number with a fraction for the days.
FormInputs == {FilledForm(d) : d \in {"30", "1e2", "3.5"}}

\* submissionResult: null (shown FALSE), or the object submitClaim sets
NoResult == [shown |-> FALSE, success |-> FALSE, claimId |-> NoId, prediction |-> 0, error |-> ""]

\* Date.now().toString().slice(-6) at time t, after "CLM-"
generateClaimId(t) == ClmId(t % Pow10(IdDigits))

\* x || 0 on a parsed number
OrZero(n) == IF n.nan \/ n.val = 0 THEN 0 ELSE n.val

\* transformFormData(), Date.now() being t; the two ratios are in hundredths
transformFormData(fd, t) ==
    [claim_id |-> generateClaimId(t),
     age_group |-> fd.ageGroup,
     gender |-> fd.gender,
     marital_status |-> fd.maritalStatus,
     income_band |-> fd.incomeBand,
     employment_status |-> fd.employmentStatus,
     address_change_last_6_months |-> (fd.addressChange = "yes"),
     deductible_level |-> fd.deductibleLevel,
     days_policy_accident |-> OrZero(ParseInt(fd.daysPolicyAccident)),
     days_policy_claim |-> OrZero(ParseInt(fd.daysPolicyClaim)),
     past_number_of_claims |-> OrZero(ParseInt(fd.pastClaims)),
     vehicle_category |-> fd.vehicleCategory,
     vehicle_price_range |-> fd.vehiclePriceRange,
     vehicle_age_years |-> OrZero(ParseInt(fd.vehicleAge)),
     accident_area |-> fd.accidentArea,
     police_report_filed |-> (fd.policeReport = "yes"),
     witness_present |-> (fd.witnessPresent = "yes"),
     weather_condition |-> fd.weatherCondition,
     accident_time |-> fd.accidentTime,
     agent_type |-> fd.agentType,
     claim_amendments |-> OrZero(ParseInt(fd.claimAmendments)),
     address_change_linked_to_claim |-> (fd.addressChangeLinked = "yes"),
     claim_amount_range |-> fd.claimAmountRange,
     payout_to_claim_ratio |-> OrZero(ParseFloat(fd.payoutRatio)),
     claim_channel |-> fd.claimChannel,
     repair_shop_pattern |-> fd.repairShopPattern,
     fraud_percentage_estimate |-> OrZero(ParseFloat(fd.fraudPercentage)),
     fraud_type |-> fd.fraudType,
     high_risk_combination |-> (fd.highRiskCombination = "yes"),
     region |-> fd.region]

\* the time that has passed since Date.now() was last read: a millisecond, or as
\* long as the six digits take to come round
Elapsed == {1, Pow10(IdDigits)}

\* the onChange handlers, setFormData({...formData, field: value}), one after
\* another until the form reads fd
setFormData(fd) ==
    /\ page = "NewClaim"
    /\ formData' = fd
    /\ UNCHANGED <<page, answers, serviceVars, reportVars, viewVars, batchVars, currentStep, isSubmitting, submissionResult, fpc,
                   claimData, fresult, now, backendVars, calls>>

\* a Next button that does not look at the step it is on
nextStepMutant ==
    /\ page = "NewClaim"
    /\ currentStep' = currentStep + 1
    /\ UNCHANGED <<page, answers, serviceVars, reportVars, viewVars, batchVars, isSubmitting,
                   submissionResult, formData, fpc, claimData, fresult, now, backendVars, calls>>

nextStep ==
    /\ page = "NewClaim"
    /\ currentStep < Len(steps) - 1
    /\ currentStep' = currentStep + 1
    /\ UNCHANGED <<page, answers, serviceVars, reportVars, viewVars, batchVars, isSubmitting, submissionResult, formData, fpc,
                   claimData, fresult, now, backendVars, calls>>

prevStep ==
    /\ page = "NewClaim"
    /\ currentStep > 0
    /\ currentStep' = currentStep - 1
    /\ UNCHANGED <<page, answers, serviceVars, reportVars, viewVars, batchVars, isSubmitting, submissionResult, formData, fpc,
                   claimData, fresult, now, backendVars, calls>>

\* the Submit Claim button (on the last step, disabled while isSubmitting), up to
\* await apiService.createClaim(claimData)
submitClaim ==
    /\ page = "NewClaim"
    /\ currentStep = Len(steps) - 1
    /\ ~isSubmitting
    /\ Len(calls) < MaxFormCalls
    /\ \E d \in Elapsed : now' = now + d
    /\ isSubmitting' = TRUE
    /\ submissionResult' = NoResult
    /\ claimData' = transformFormData(formData, now')
    /\ fpc' = "createClaim"
    /\ calls' = Append(calls, [Request("createClaim", "form", 0, generateClaimId(now'),
                                       Len(calls) + 1) EXCEPT !.input = formData])
    /\ UNCHANGED <<page, answers, serviceVars, reportVars, viewVars, batchVars, currentStep, formData, fresult, backendVars>>

\* a catch with no finally block after it
SubmissionFailedMutant(resp) ==
    /\ submissionResult' = [NoResult EXCEPT !.shown = TRUE, !.error = resp]
    /\ isSubmitting' = isSubmitting
    /\ fpc' = "idle"
    /\ claimData' = Null
    /\ fresult' = NoId

\* the catch and finally blocks of submitClaim
SubmissionFailed(resp) ==
    /\ submissionResult' = [NoResult EXCEPT !.shown = TRUE, !.error = resp]
    /\ isSubmitting' = FALSE
    /\ fpc' = "idle"
    /\ claimData' = Null
    /\ fresult' = NoId

\* await apiService.createClaim(claimData) settles
FormCreateSettled ==
    /\ fpc = "createClaim"
    /\ \E k \in Pending("form"), resp \in Responses, done \in BOOLEAN :
         /\ Handled(resp, done)
         /\ dbClaims' = IF done THEN StoreClaim(claimData, calls[k].id, k) ELSE dbClaims
         /\ IF Resolves(resp)
            THEN \* const result = ...; predictFraud(claimData.claim_id) is issued
                 /\ fresult' = StoredId(calls[k].id)
                 /\ fpc' = "predictFraud"
                 /\ calls' = Append(Settle(calls, k, resp, StoredId(calls[k].id)),
                                    Request("predictFraud", "form", 0, claimData.claim_id, k))
                 /\ UNCHANGED <<isSubmitting, submissionResult, claimData>>
            ELSE /\ SubmissionFailed(resp)
                 /\ calls' = Settle(calls, k, resp, NoId)
    /\ UNCHANGED <<page, answers, serviceVars, reportVars, viewVars, batchVars, currentStep, formData, now, dbPreds, assignsIds>>

\* await apiService.predictFraud(claimData.claim_id) settles
FormPredictSettled ==
    /\ fpc = "predictFraud"
    /\ \E k \in Pending("form"), resp \in Responses, done \in BOOLEAN, p \in Probs :
         /\ Handled(resp, done)
         /\ done => ClaimExists(calls[k].id)
         /\ dbPreds' = IF done THEN StorePrediction(calls[k].id, p) ELSE dbPreds
         /\ calls' = Settle(calls, k, resp, calls[k].id)
         /\ IF Resolves(resp)
            THEN /\ submissionResult' = [NoResult EXCEPT !.shown = TRUE, !.success = TRUE,
                                                         !.claimId = fresult, !.prediction = p]
                 /\ isSubmitting' = FALSE
                 /\ fpc' = "idle"
                 /\ claimData' = Null
                 /\ fresult' = NoId
            ELSE SubmissionFailed(resp)
    /\ UNCHANGED <<page, answers, serviceVars, reportVars, viewVars, batchVars, currentStep, formData, now, dbClaims, assignsIds>>

\* ---------------------------------------------------- back end: queries
\* the scores the classifier gives the claims of other clients, in thousandths
Scores == {200, 500, 704, 750}

\* the cut points of the scoring contract, in thousandths
RiskLevelOf(p) == IF p > 700 THEN "HIGH RISK" ELSE IF p > 400 THEN "MEDIUM RISK" ELSE "LOW RISK"

\* toUpperCase() on an option of the risk filter
Upper(s) == IF s = "high" THEN "HIGH" ELSE s

\* the params of fetchClaims for the filters as selected; "" for a key left out
ClaimParams(region, risk) ==
    [region |-> IF region # "all" THEN region ELSE "",
     risk_level |-> IF risk # "all" THEN Upper(risk) ELSE ""]

\* another client stores a claim, the first or the second of the template; p is
\* its score, 0 when it is not scored
OtherClientSubmits(k, p) ==
    /\ page \in {"Claims", "Dashboard"}
    /\ Len(dbClaims) < MaxRows
    /\ dbClaims' = Append(dbClaims,
                          [claim_id |-> [text |-> "EXT-", n |-> Len(dbClaims) + 1],
                           data |-> ParseRow(requiredFields, csvTemplate[k], k), req |-> 0])
    /\ dbPreds' = IF p = 0 THEN dbPreds
                  ELSE StorePrediction([text |-> "EXT-", n |-> Len(dbClaims) + 1], p)
    /\ UNCHANGED <<page, answers, serviceVars, reportVars, batchVars, formVars, viewVars, assignsIds, calls>>

PredsOf(preds, id) == {k \in 1..Len(preds) : preds[k].claim_id = id}

\* the score of a claim among the prediction rows: the latest one, 0 when there is none
ScoreOf(preds, id) ==
    IF PredsOf(preds, id) = {} THEN 0
    ELSE preds[CHOOSE k \in PredsOf(preds, id) : \A j \in PredsOf(preds, id) : j <= k]
            .fraud_probability

\* a claim as GET /api/claims returns it; risk_level is null ("") and
\* fraud_probability is null (0) for a claim that is not scored
ClaimRow(row, preds) ==
    [claim_id |-> row.claim_id,
     region |-> row.data.region,
     claim_amount_range |-> row.data.claim_amount_range,
     age_group |-> row.data.age_group,
     gender |-> row.data.gender,
     vehicle_category |-> row.data.vehicle_category,
     fraud_probability |-> ScoreOf(preds, row.claim_id),
     risk_level |-> IF PredsOf(preds, row.claim_id) = {} THEN ""
                    ELSE RiskLevelOf(ScoreOf(preds, row.claim_id)),
     fraud_prediction |-> ScoreOf(preds, row.claim_id) >= 500]

GetClaims(rows, preds) == [k \in 1..Len(rows) |-> ClaimRow(rows[k], preds)]

RegionsOf(rows) == {rows[k].data.region : k \in 1..Len(rows)}

\* the claims whose risk level is level
WithLevel(rows, preds, level) ==
    {k \in 1..Len(rows) : ClaimRow(rows[k], preds).risk_level = level}

\* GET /api/dashboard/stats; region_stats is kept as a function of the region
GetDashboardStats(rows, preds) ==
    [loaded |-> TRUE,
     total_claims |-> Len(rows),
     fraud_predictions |->
        [fraud_cases |->
            Cardinality({k \in 1..Len(rows) : ClaimRow(rows[k], preds).fraud_prediction}),
         high_risk |-> Cardinality(WithLevel(rows, preds, "HIGH RISK")),
         medium_risk |-> Cardinality(WithLevel(rows, preds, "MEDIUM RISK")),
         low_risk |-> Cardinality(WithLevel(rows, preds, "LOW RISK"))],
     region_stats |-> [r \in RegionsOf(rows) |->
                          Cardinality({k \in 1..Len(rows) : rows[k].data.region = r})]]

\* ---------------------------------------------------------------- Claims
\* toLowerCase() on a risk level
Lower(s) ==
    CASE s = "HIGH RISK" -> "high risk"
      [] s = "MEDIUM RISK" -> "medium risk"
      [] s = "LOW RISK" -> "low risk"
      [] OTHER -> s

getStatusFromRisk(riskLevel) ==
    IF riskLevel = "" THEN "Processing"
    ELSE CASE Lower(riskLevel) = "high risk" -> "Flagged"
           [] Lower(riskLevel) = "medium risk" -> "Under Review"
           [] Lower(riskLevel) = "low risk" -> "Approved"
           [] OTHER -> "Processing"

\* Math.round((fraud_probability || 0) * 100), the probability in thousandths
RoundPercent(p) == (p + 5) \div 10

\* a claim of the response as the list keeps it
TransformClaim(claim) ==
    [id |-> claim.claim_id,
     region |-> claim.region,
     riskLevel |-> IF Lower(claim.risk_level) = "" THEN "unknown" ELSE Lower(claim.risk_level),
     fraudProbability |-> RoundPercent(claim.fraud_probability),
     amount |-> claim.claim_amount_range,
     status |-> getStatusFromRisk(claim.risk_level),
     claimant |-> <<claim.age_group, claim.gender>>,
     vehicleType |-> claim.vehicle_category,
     prediction |-> claim.fraud_prediction]

\* a bar that tests the lower cut point first
BarClassMutant(fraudProbability) ==
    IF fraudProbability > BarMedium THEN "bg-risk-medium"
    ELSE IF fraudProbability > BarHigh THEN "bg-risk-high"
    ELSE "bg-risk-low"

\* the class of the fraud-risk bar of a row of the list
BarClass(fraudProbability) ==
    IF fraudProbability > BarHigh THEN "bg-risk-high"
    ELSE IF fraudProbability > BarMedium THEN "bg-risk-medium"
    ELSE "bg-risk-low"

\* the list as the page shows it: the bar's class next to each claim
ClaimsTable == [k \in 1..Len(claimsData) |-> BarClass(claimsData[k].fraudProbability)]

\* the options of the two filters a session chooses among
ClaimRegions == {"all", "Khomas"}

ClaimRisks == {"all", "high"}

\* the Refresh button can be clicked: disabled={loading}
CanRefresh == cpc = "idle" /\ ~claimsLoading

\* fetchClaims() of the render with these filters, up to
\* await apiService.getClaims(params)
FetchClaimsWith(region, risk) ==
    /\ Len(claimFetches) < MaxClaimFetches
    /\ claimsLoading' = TRUE
    /\ claimsError' = Null
    /\ claimFetches' = Append(claimFetches, ClaimParams(region, risk))
    /\ claimsLatest' = "pending"
    /\ claimsShown' = [claimsShown EXCEPT !.latest = FALSE]
    /\ cpc' = "idle"
    /\ UNCHANGED <<page, answers, serviceVars, reportVars, batchVars, formVars, claimsData, fetched,
                   dashboardStats, dashboardClaims, dashboardLoading, dpc, queried,
                   backendVars, calls>>

\* fetchClaims(), from the effect after mounting or from the Refresh button
fetchClaims ==
    /\ page \in {"Claims", "ClaimsFilters"}
    /\ cpc = "mount" \/ CanRefresh
    /\ FetchClaimsWith(claimsRegion, claimsRisk)
    /\ UNCHANGED <<claimsRegion, claimsRisk>>

\* the region filter is set to v: the page renders again and its effect calls
\* fetchClaims
setClaimsRegion(v) ==
    /\ page = "ClaimsFilters"
    /\ cpc = "idle"
    /\ v # claimsRegion
    /\ claimsRegion' = v
    /\ FetchClaimsWith(v, claimsRisk)
    /\ UNCHANGED claimsRisk

\* the risk filter is set to v: the page renders again and its effect calls
\* fetchClaims
setClaimsRisk(v) ==
    /\ page = "ClaimsFilters"
    /\ cpc = "idle"
    /\ v # claimsRisk
    /\ claimsRisk' = v
    /\ FetchClaimsWith(claimsRegion, v)
    /\ UNCHANGED claimsRegion

\* the sequence without its k-th entry
Without(seq, k) == [i \in 1..(Len(seq) - 1) |-> IF i < k THEN seq[i] ELSE seq[i + 1]]

\* the k-th of the waiting calls is the newest call of fetchClaims
IsLatest(k) == claimsLatest = "pending" /\ k = Len(claimFetches)

\* await apiService.getClaims(params) settles for the k-th of the waiting calls
ClaimsSettled(k) ==
    /\ \E resp \in Responses :
         /\ claimsLatest' = IF ~IsLatest(k) THEN claimsLatest
                            ELSE IF Resolves(resp) THEN "resolved" ELSE "rejected"
         /\ IF Resolves(resp)
            THEN /\ claimsData' = [r \in 1..Len(dbClaims) |->
                                      TransformClaim(GetClaims(dbClaims, dbPreds)[r])]
                 /\ fetched' = GetClaims(dbClaims, dbPreds)
                 /\ claimsShown' = [of |-> claimFetches[k], latest |-> IsLatest(k)]
                 /\ UNCHANGED claimsError
            ELSE /\ claimsError' = resp
                 /\ UNCHANGED <<claimsData, fetched, claimsShown>>
    /\ claimFetches' = Without(claimFetches, k)
    /\ claimsLoading' = FALSE
    /\ UNCHANGED <<page, answers, serviceVars, reportVars, batchVars, formVars, dashboardStats, dashboardClaims,
                   dashboardLoading, dpc, queried, backendVars, calls, cpc, claimsRegion, claimsRisk>>

\* ------------------------------------------------------------- Dashboard
\* dashboardStats before a response has come: null
NoStats ==
    [loaded |-> FALSE, total_claims |-> 0,
     fraud_predictions |-> [fraud_cases |-> 0, high_risk |-> 0, medium_risk |-> 0, low_risk |-> 0],
     region_stats |-> <<>>]

\* fetchDashboardData(), from the effect after mounting, up to await Promise.all
fetchDashboardData ==
    /\ page = "Dashboard"
    /\ dpc = "mount"
    /\ dashboardLoading' = TRUE
    /\ dpc' = "Promise.all"
    /\ UNCHANGED <<page, answers, serviceVars, reportVars, batchVars, formVars, claimsData, claimsLoading, claimsError, cpc,
                   fetched, claimsRegion, claimsRisk, claimFetches, claimsLatest, claimsShown,
                   dashboardStats, dashboardClaims, queried, backendVars, calls>>

\* await Promise.all([getDashboardStats(), getClaims()]) settles
DashboardSettled ==
    /\ dpc = "Promise.all"
    /\ \E rs \in Outcomes(2) :
         /\ IF AllResolve(rs)
            THEN /\ dashboardStats' = GetDashboardStats(dbClaims, dbPreds)
                 /\ dashboardClaims' = GetClaims(dbClaims, dbPreds)
                 /\ queried' = [claims |-> dbClaims, preds |-> dbPreds]
            ELSE UNCHANGED <<dashboardStats, dashboardClaims, queried>>
         /\ dpc' = IF SomeFails(rs) THEN "failed" ELSE "done"
    /\ dashboardLoading' = FALSE
    /\ UNCHANGED <<page, answers, serviceVars, reportVars, batchVars, formVars, claimsData, claimsLoading, claimsError, cpc,
                   fetched, claimsRegion, claimsRisk, claimFetches, claimsLatest, claimsShown, backendVars, calls>>

\* the four cards of the page; System Accuracy in tenths of a percent
statsData ==
    [totalClaims |-> dashboardStats.total_claims,
     fraudCasesDetected |-> dashboardStats.fraud_predictions.fraud_cases,
     highRiskClaims |-> dashboardStats.fraud_predictions.high_risk,
     systemAccuracy |-> 942]

\* the chart of the regions
regionData ==
    [r \in DOMAIN dashboardStats.region_stats |->
        [region |-> r,
         claims |-> dashboardStats.region_stats[r],
         fraudCases |-> dashboardStats.region_stats[r] \div 10]]

\* the chart of the risk levels, before the filter that drops the empty ones
riskDistribution ==
    [high |-> dashboardStats.fraud_predictions.high_risk,
     medium |-> dashboardStats.fraud_predictions.medium_risk,
     low |-> dashboardStats.fraud_predictions.low_risk]

\* --------------------------------------------------------------- RiskBadge
\* the label of <RiskBadge level={level} />
RiskBadge(level) ==
    IF level = "high" THEN "High Risk"
    ELSE IF level = "medium" THEN "Medium Risk"
    ELSE "Low Risk"

\* the Risk Level column of the Claims list
RiskColumn == [k \in 1..Len(claimsData) |-> RiskBadge(claimsData[k].riskLevel)]

\* claimsData.slice(0, 10)
RecentCount == 10

\* values of Math.random(), in thousandths
Randoms == {0, 999}

\* the values Math.random() returns during one render of n recent claims: two
\* for each claim
RandomDraws(n) == [1..n -> [amount : Randoms, percent : Randoms]]

\* Dashboard.recentClaims in a render in which Math.random() returns random;
\* amount in dollars
recentClaims(random) ==
    [k \in 1..(IF Len(dashboardClaims) < RecentCount THEN Len(dashboardClaims) ELSE RecentCount) |->
        [id |-> dashboardClaims[k].claim_id,
         region |-> dashboardClaims[k].region,
         amount |-> (random[k].amount * 50000) \div 1000 + 10000,
         fraudProbability |-> (random[k].percent * 100) \div 1000,
         riskLevel |-> IF dashboardClaims[k].risk_level = "" THEN "LOW RISK"
                       ELSE dashboardClaims[k].risk_level]]

\* the badges of Recent Claims Activity; they depend on no random value
RecentBadges ==
    [k \in 1..(IF Len(dashboardClaims) < RecentCount THEN Len(dashboardClaims) ELSE RecentCount) |->
        RiskBadge(IF dashboardClaims[k].risk_level = "" THEN "LOW RISK"
                  ELSE dashboardClaims[k].risk_level)]

\* ------------------------------------------------------------ apiService
\* APP_CONFIG.REQUEST_TIMEOUT, in milliseconds
REQUEST_TIMEOUT == 30000

\* the operations of apiService a session calls: one that is a GET through
\* apiClient, one that is a POST through apiClient, and exportReports
ApiOps == {"getClaims", "createClaim", "exportReports"}

\* the operation goes through apiClient (HttpClient.request); exportReports
\* calls fetch itself
UsesClient(op) == op # "exportReports"

\* the status codes a response comes with
HttpStatuses == {200, 500}

\* response.ok
Ok(status) == status \in 200..299

NoError == [kind |-> "none", status |-> 0 - 1]

\* new ApiError(message, status)
ApiError(status) == [kind |-> "ApiError", status |-> status]

\* an error that is no ApiError and has no status: what fetch, response.json()
\* and response.blob() reject with
TypeError == [kind |-> "TypeError", status |-> 0 - 1]

\* What the operation rejects with when err is thrown inside it: the catch of
\* HttpClient.request wraps it in an ApiError with the given status; exportReports
\* has no catch.
Caught(op, err, status) == IF UsesClient(op) THEN ApiError(status) ELSE err

\* the steps by which time passes
Steps == {100, REQUEST_TIMEOUT}

\* setTimeout(() => controller.abort(), this.timeout) is pending for request k
AbortArmed(k) == reqs[k].armed /\ reqs[k].phase = "fetch"

\* the times at which a pending timer fires
Deadlines ==
    {reqs[k].at + REQUEST_TIMEOUT : k \in {j \in 1..Len(reqs) : AbortArmed(j)}} \cup timers

Earliest(S) == CHOOSE t \in S : \A u \in S : t <= u

\* Time passes, up to the next moment a timer fires.
Tick(d) ==
    /\ page \in {"apiService", "Reports"}
    /\ ticks < MaxTicks
    /\ \A t \in Deadlines : clock < t
    /\ clock' = IF Deadlines # {} /\ Earliest(Deadlines) < clock + d
                THEN Earliest(Deadlines) ELSE clock + d
    /\ ticks' = ticks + 1
    /\ UNCHANGED <<page, answers, batchVars, formVars, viewVars, backendVars, calls, reqs, reportVars>>

Settled(k, phase, cause, http, err) ==
    [reqs EXCEPT ![k] = [@ EXCEPT !.phase = phase, !.cause = cause, !.http = http, !.error = err]]

\* apiService[op](...) is called: request() arms its timer and calls fetch;
\* exportReports calls fetch
apiCall(op) ==
    /\ page = "apiService"
    /\ Len(reqs) < MaxRequests
    /\ reqs' = Append(reqs, [op |-> op, at |-> clock, phase |-> "fetch", armed |-> UsesClient(op),
                             cause |-> "none", http |-> 0, error |-> NoError])
    /\ UNCHANGED <<page, answers, batchVars, formVars, viewVars, backendVars, calls, clock, ticks, reportVars>>

\* fetch resolves with a response: clearTimeout, then the check of response.ok
FetchResponds(k, status) ==
    /\ reqs[k].phase = "fetch"
    /\ ~(AbortArmed(k) /\ clock >= reqs[k].at + REQUEST_TIMEOUT)
    /\ reqs' = IF Ok(status)
               THEN [reqs EXCEPT ![k] = [@ EXCEPT !.phase = "body", !.http = status, !.armed = FALSE]]
               ELSE [Settled(k, "rejected", "http", status, ApiError(status))
                        EXCEPT ![k] = [@ EXCEPT !.armed = FALSE]]
    /\ UNCHANGED <<page, answers, batchVars, formVars, viewVars, backendVars, calls, clock, ticks, reportVars>>

\* fetch rejects: the network failed
FetchFails(k) ==
    /\ reqs[k].phase = "fetch"
    /\ ~(AbortArmed(k) /\ clock >= reqs[k].at + REQUEST_TIMEOUT)
    /\ reqs' = [Settled(k, "rejected", "network", 0, Caught(reqs[k].op, TypeError, 0))
                   EXCEPT ![k] = [@ EXCEPT !.armed = FALSE]]
    /\ UNCHANGED <<page, answers, batchVars, formVars, viewVars, backendVars, calls, clock, ticks, reportVars>>

\* the timer of request() fires: controller.abort(), fetch rejects with an
\* AbortError, the catch throws ApiError('Request timeout', 408)
AbortFires(k) ==
    /\ AbortArmed(k)
    /\ clock >= reqs[k].at + REQUEST_TIMEOUT
    /\ reqs' = [Settled(k, "rejected", "timeout", 0, ApiError(408))
                   EXCEPT ![k] = [@ EXCEPT !.armed = FALSE]]
    /\ UNCHANGED <<page, answers, batchVars, formVars, viewVars, backendVars, calls, clock, ticks, reportVars>>

\* response.json(), response.text() or response.blob() resolves
BodyRead(k) ==
    /\ reqs[k].phase = "body"
    /\ reqs' = Settled(k, "resolved", "none", reqs[k].http, NoError)
    /\ UNCHANGED <<page, answers, batchVars, formVars, viewVars, backendVars, calls, clock, ticks, reportVars>>

\* response.json(), response.text() or response.blob() rejects
BodyFails(k) ==
    /\ reqs[k].phase = "body"
    /\ reqs' = Settled(k, "rejected", "other", reqs[k].http, Caught(reqs[k].op, TypeError, 0))
    /\ UNCHANGED <<page, answers, batchVars, formVars, viewVars, backendVars, calls, clock, ticks, reportVars>>

\* ---------------------------------------------------------------- Reports
\* the delay of the effect's setTimeout, in milliseconds
DebounceDelay == 300

\* the options of the filters a session chooses among
Periods == {"last-6-months", "last-year"}

Regions == {"all-regions", "khomas"}

Risks == {"all-risk", "high"}

\* an effect that sets its timer and has no cleanup
RearmMutant(pending, t) == pending \cup {t + DebounceDelay}

\* The effect runs at time t: the cleanup of its last run clears that run's
\* timer, then setTimeout(..., 300).
Rearm(pending, t) == {t + DebounceDelay}

\* the user can act: the page is past its loading screen, and no timer is due
CanAct == page = "Reports" /\ ~reportsLoading /\ \A t \in timers : clock < t

\* a filter changes at this moment: the page renders again and the effect runs
FilterChanged ==
    /\ Len(changes) + Len(fetches) < MaxEvents
    /\ timers' = Rearm(timers, clock)
    /\ changes' = Append(changes, clock)
    /\ UNCHANGED <<page, answers, batchVars, formVars, viewVars, backendVars, calls, serviceVars,
                   reportsLoading, fetches, reportData, regionalData, summaryStats>>

setSelectedPeriod(v) ==
    /\ CanAct
    /\ v # selectedPeriod
    /\ selectedPeriod' = v
    /\ FilterChanged
    /\ UNCHANGED <<selectedRegion, selectedRisk>>

setSelectedRegion(v) ==
    /\ CanAct
    /\ v # selectedRegion
    /\ selectedRegion' = v
    /\ FilterChanged
    /\ UNCHANGED <<selectedPeriod, selectedRisk>>

setSelectedRisk(v) ==
    /\ CanAct
    /\ v # selectedRisk
    /\ selectedRisk' = v
    /\ FilterChanged
    /\ UNCHANGED <<selectedPeriod, selectedRegion>>

\* the query of a request that has none; "" for a key that is not sent
NoQuery == [period |-> "", region |-> "", risk |-> ""]

\* apiService.getMonthlyTrends(), getRegionalAnalysis() and getSummaryStats():
\* the three requests as they go out
ReportRequests ==
    <<[endpoint |-> "/api/reports/monthly-trends", query |-> NoQuery],
      [endpoint |-> "/api/reports/regional-analysis", query |-> NoQuery],
      [endpoint |-> "/api/reports/summary-stats", query |-> NoQuery]>>

\* fetchReportsData() up to its await: setLoading(true) and the three requests
fetchReportsData(by) ==
    /\ Len(changes) + Len(fetches) < MaxEvents
    /\ reportsLoading' = TRUE
    /\ fetches' = Append(fetches, [at |-> clock, by |-> by, state |-> "pending", failed |-> FALSE,
                                    sent |-> ReportRequests])
    /\ UNCHANGED <<page, answers, batchVars, formVars, viewVars, backendVars, calls, serviceVars,
                   selectedPeriod, selectedRegion, selectedRisk,
                   changes, reportData, regionalData, summaryStats>>

\* the timer of the effect fires
DebounceFires ==
    /\ page = "Reports"
    /\ \E t \in timers :
         /\ clock >= t
         /\ timers' = timers \ {t}
    /\ fetchReportsData("timer")

\* Refresh Data is clicked
RefreshClicked ==
    /\ CanAct
    /\ fetchReportsData("refresh")
    /\ UNCHANGED timers

\* await Promise.all([getMonthlyTrends(), getRegionalAnalysis(), getSummaryStats()])
\* settles for the k-th call: the three setters, or the catch; then finally
ReportsSettled(k) ==
    /\ fetches[k].state = "pending"
    /\ \E rs \in Outcomes(3) :
         /\ fetches' = [fetches EXCEPT ![k].state = IF AllResolve(rs) THEN "resolved" ELSE "rejected",
                                       ![k].failed = SomeFails(rs)]
         /\ IF AllResolve(rs)
            THEN /\ reportData' = k
                 /\ regionalData' = k
                 /\ summaryStats' = k
            ELSE UNCHANGED <<reportData, regionalData, summaryStats>>
    /\ reportsLoading' = FALSE
    /\ UNCHANGED <<page, answers, batchVars, formVars, viewVars, backendVars, calls, serviceVars,
                   selectedPeriod, selectedRegion, selectedRisk,
                   timers, changes>>

\* what a session is spent on: one of the pages, or apiService on its own; a
\* session on the Claims page is spent on its list, other clients storing claims
\* meanwhile, or on its filters
Pages == {"BatchUpload", "NewClaim", "Claims", "ClaimsFilters", "Dashboard", "Reports",
          "apiService"}

Init ==
    /\ page \in Pages
    /\ uploadProgress = 0
    /\ isProcessing = FALSE
    /\ uploadResults = <<>>
    /\ selectedFile = NoFile
    /\ error = Null
    /\ success = Null
    /\ bpc = "idle"
    /\ claims = <<>>
    /\ bi = 0
    /\ results = <<>>
    /\ result = NoId
    /\ disk \in (IF page = "BatchUpload" THEN DiskFiles ELSE {NoFile})
    /\ currentStep = 0
    /\ isSubmitting = FALSE
    /\ submissionResult = NoResult
    /\ formData = EmptyForm
    /\ answers \in (IF page = "NewClaim" THEN FormInputs ELSE {EmptyForm})
    /\ fpc = "idle"
    /\ claimData = Null
    /\ fresult = NoId
    /\ now = 0
    /\ claimsData = <<>>
    /\ claimsLoading = TRUE
    /\ claimsError = Null
    /\ cpc = "mount"
    /\ fetched = <<>>
    /\ claimsRegion = "all"
    /\ claimsRisk = "all"
    /\ claimFetches = <<>>
    /\ claimsLatest = "none"
    /\ claimsShown = [of |-> ClaimParams("all", "all"), latest |-> FALSE]
    /\ dashboardStats = NoStats
    /\ dashboardClaims = <<>>
    /\ dashboardLoading = TRUE
    /\ dpc = "mount"
    /\ queried = [claims |-> <<>>, preds |-> <<>>]
    /\ dbClaims = <<>>
    /\ dbPreds = <<>>
    /\ assignsIds \in BOOLEAN
    /\ calls = <<>>
    /\ clock = 0
    /\ ticks = 0
    /\ reqs = <<>>
    /\ selectedPeriod = "last-6-months"
    /\ selectedRegion = "all-regions"
    /\ selectedRisk = "all-risk"
    /\ reportsLoading = TRUE
    /\ reportData = 0
    /\ regionalData = 0
    /\ summaryStats = 0
    /\ timers = IF page = "Reports" THEN Rearm({}, 0) ELSE {}
    /\ changes = IF page = "Reports" THEN <<0>> ELSE <<>>
    /\ fetches = <<>>

Next ==
    \/ \E file \in {disk, OtherFile} : handleFileSelect(file)
    \/ clearResults
    \/ processBatchUpload
    \/ BatchTextRead
    \/ BatchCreateSettled
    \/ BatchPredictSettled
    \/ setFormData(answers)
    \/ nextStep
    \/ prevStep
    \/ submitClaim
    \/ FormCreateSettled
    \/ FormPredictSettled
    \/ \E k \in 1..2, p \in {0} \cup Scores : OtherClientSubmits(k, p)
    \/ fetchClaims
    \/ \E v \in ClaimRegions : setClaimsRegion(v)
    \/ \E v \in ClaimRisks : setClaimsRisk(v)
    \/ \E k \in DOMAIN claimFetches : ClaimsSettled(k)
    \/ fetchDashboardData
    \/ DashboardSettled
    \/ \E d \in Steps : Tick(d)
    \/ \E op \in ApiOps : apiCall(op)
    \/ \E k \in 1..Len(reqs), status \in HttpStatuses : FetchResponds(k, status)
    \/ \E k \in 1..Len(reqs) : FetchFails(k)
    \/ \E k \in 1..Len(reqs) : AbortFires(k)
    \/ \E k \in 1..Len(reqs) : BodyRead(k)
    \/ \E k \in 1..Len(reqs) : BodyFails(k)
    \/ \E v \in Periods : setSelectedPeriod(v)
    \/ \E v \in Regions : setSelectedRegion(v)
    \/ \E v \in Risks : setSelectedRisk(v)
    \/ DebounceFires
    \/ RefreshClicked
    \/ \E k \in 1..Len(fetches) : ReportsSettled(k)

Spec == Init /\ [][Next]_vars

\* ------------------------------------------------ batch upload: properties
\* the rows of the file: the 0-based numbers of its data lines that are not blank
RowNumbers == {i \in 1..(Len(disk.lines) - 1) : ~IsBlankLine(disk.lines[i + 1])}

\* the text of a line under the column of field f
CellOf(line, f) == IF FieldIndex(f) <= Len(line) THEN Trim(line[FieldIndex(f)]) ELSE ""

LineMissesField(line) == \E k \in 1..Len(requiredFields) : CellOf(line, requiredFields[k]) = ""

LineIllTyped(line) ==
    /\ ~LineMissesField(line)
    /\ \/ \E k \in 1..Len(IntegerFields) : ParseInt(CellOf(line, IntegerFields[k])).nan
       \/ \E k \in 1..Len(DecimalFields) : ParseFloat(CellOf(line, DecimalFields[k])).nan
       \/ \E k \in 1..Len(BooleanFields) : CellOf(line, BooleanFields[k]) \notin {"true", "false"}

\* what each line a file can hold is like
LineKinds ==
    [line \in CandidateLines |->
        [missing |-> LineMissesField(line), illTyped |-> LineIllTyped(line)]]

\* the text of row i under the column of field f, as the file has it
RowCell(i, f) == CellOf(disk.lines[i + 1], f)

HasMissingField(i) == LineKinds[disk.lines[i + 1]].missing

IllTyped(i) == LineKinds[disk.lines[i + 1]].illTyped

\* a run of processBatchUpload has ended and its results are on the page
RunShown == Len(uploadResults) > 0

\* the requests of the latest run
RunCalls(op) ==
    {k \in 1..Len(calls) : calls[k].src = "batch" /\ calls[k].cur /\ calls[k].op = op}

RowCalls(op, i) == {k \in RunCalls(op) : calls[k].row = i}

Failed(k) == calls[k].state \in {"500", "timeout"}

RowsMissing == {i \in RowNumbers : HasMissingField(i)}

RowsIllTyped == {i \in RowNumbers : IllTyped(i)}

EntriesOf(i) == {k \in 1..Len(uploadResults) : uploadResults[k].row = i}

\* C1 as stated: with N rows of which M miss a required field, a finished run
\* shows exactly M 'error' entries and has called createClaim exactly N - M times.
C1_ExactlyMErrors ==
    RunShown =>
        /\ CountStatus(uploadResults, "error") = Cardinality(RowsMissing)
        /\ Cardinality(RunCalls("createClaim"))
             = Cardinality(RowNumbers) - Cardinality(RowsMissing)

\* C1 amended: a finished run shows an 'error' entry for each row that misses a
\* required field, for each other row that fails a type check of validateClaim and
\* for each row whose createClaim failed, and for no other row; it has called
\* createClaim exactly once for each row that passes validateClaim and never for
\* another row.  So there are at least M 'error' entries and at most N - M calls,
\* and exactly M and N - M when every complete row is well typed and no
\* createClaim fails.
C1_ErrorsAndCalls ==
    RunShown =>
        /\ \A i \in RowNumbers :
             /\ Cardinality(RowCalls("createClaim", i))
                  = IF HasMissingField(i) \/ IllTyped(i) THEN 0 ELSE 1
             /\ (\E k \in EntriesOf(i) : uploadResults[k].status = "error")
                  <=> \/ HasMissingField(i)
                      \/ IllTyped(i)
                      \/ \E c \in RowCalls("createClaim", i) : Failed(c)
        /\ CountStatus(uploadResults, "error")
             = Cardinality(RowsMissing) + Cardinality(RowsIllTyped)
               + Cardinality({c \in RunCalls("createClaim") : Failed(c)})
        /\ Cardinality(RunCalls("createClaim"))
             = Cardinality(RowNumbers) - Cardinality(RowsMissing) - Cardinality(RowsIllTyped)

\* a finished run over a file with a row that misses a field and a complete row
\* whose createClaim failed
C1_Witness ==
    /\ RunShown
    /\ RowsMissing # {}
    /\ \E c \in RunCalls("createClaim") : Failed(c)
    /\ CountStatus(uploadResults, "error") > Cardinality(RowsMissing)

\* the identifiers a request carried or brought back
IdsOf(k) == {calls[k].id} \cup (IF calls[k].state = "200" THEN {calls[k].ret} ELSE {})

\* C2 as stated: a run of processBatchUpload over a file that an earlier run has
\* processed submits and records only identifiers no earlier run has used.
C2_FreshIdentifiers ==
    \A k, j \in 1..Len(calls) :
        (/\ calls[k].src = "batch" /\ calls[k].cur
         /\ calls[j].src = "batch" /\ ~calls[j].cur)
        => IdsOf(k) \cap IdsOf(j) = {}

\* C6: a finished run shows one entry for each row of the file, in the order of
\* the rows, and every row that passes validation has been sent to createClaim,
\* whatever happened to the rows before it.
C6_OneEntryPerRow ==
    RunShown =>
        /\ Len(uploadResults) = Cardinality(RowNumbers)
        /\ \A k \in 1..Len(uploadResults) :
             /\ uploadResults[k].row \in RowNumbers
             /\ k < Len(uploadResults) => uploadResults[k].row < uploadResults[k + 1].row
        /\ \A i \in RowNumbers :
             (~HasMissingField(i) /\ ~IllTyped(i)) => RowCalls("createClaim", i) # {}

\* a finished run whose first row failed and whose second row was sent
C6_Witness ==
    /\ RunShown
    /\ Len(uploadResults) >= 2
    /\ uploadResults[1].status = "error"
    /\ RowCalls("createClaim", uploadResults[2].row) # {}

\* C7: in a finished run an entry is 'success' exactly when the row's createClaim
\* and predictFraud both succeeded, 'warning' exactly when createClaim succeeded
\* and predictFraud failed, 'error' exactly when validation or createClaim failed;
\* each entry is one of the three and the three counts add up to the rows.
C7_StatusOutcome ==
    RunShown =>
        /\ \A k \in 1..Len(uploadResults) :
             /\ uploadResults[k].status \in {"success", "warning", "error"}
             /\ uploadResults[k].status = "success"
                  <=> /\ \E c \in RowCalls("createClaim", uploadResults[k].row) :
                            calls[c].state = "200"
                      /\ \E c \in RowCalls("predictFraud", uploadResults[k].row) :
                            calls[c].state = "200"
             /\ uploadResults[k].status = "warning"
                  <=> /\ \E c \in RowCalls("createClaim", uploadResults[k].row) :
                            calls[c].state = "200"
                      /\ \E c \in RowCalls("predictFraud", uploadResults[k].row) : Failed(c)
             /\ uploadResults[k].status = "error"
                  <=> \/ HasMissingField(uploadResults[k].row)
                      \/ IllTyped(uploadResults[k].row)
                      \/ \E c \in RowCalls("createClaim", uploadResults[k].row) : Failed(c)
        /\ success.successful + success.warnings + success.errors = Cardinality(RowNumbers)
        /\ success.successful = CountStatus(uploadResults, "success")
        /\ success.warnings = CountStatus(uploadResults, "warning")
        /\ success.errors = CountStatus(uploadResults, "error")

\* a finished run with a 'warning' entry and an 'error' entry
C7_Witness ==
    /\ RunShown
    /\ CountStatus(uploadResults, "warning") > 0
    /\ CountStatus(uploadResults, "error") > 0

\* C8: while processBatchUpload runs at most one of its requests is in flight:
\* a request is issued only when every earlier one has settled.
C8_OneInFlight ==
    /\ Cardinality(Pending("batch")) <= 1
    /\ \A k \in Pending("batch") :
         /\ isProcessing
         /\ \A j \in 1..Len(calls) : (calls[j].src = "batch" /\ j # k) => calls[j].state # "pending"

\* the createClaim of a second row is in flight after the requests of the first
C8_Witness ==
    \E k \in Pending("batch") :
        /\ calls[k].op = "createClaim"
        /\ \E j \in RunCalls("predictFraud") : j < k /\ calls[j].row < calls[k].row

\* ------------------------------------------------ submissions: properties
\* the number a number input's text denotes, in hundredths
NumberOf(text) == ParseFloat(text)

IntegerKeys ==
    <<<<"daysPolicyAccident", "days_policy_accident">>, <<"daysPolicyClaim", "days_policy_claim">>,
      <<"pastClaims", "past_number_of_claims">>, <<"vehicleAge", "vehicle_age_years">>,
      <<"claimAmendments", "claim_amendments">>>>

DecimalKeys ==
    <<<<"payoutRatio", "payout_to_claim_ratio">>, <<"fraudPercentage", "fraud_percentage_estimate">>>>

BooleanKeys ==
    <<<<"addressChange", "address_change_last_6_months">>, <<"policeReport", "police_report_filed">>,
      <<"witnessPresent", "witness_present">>, <<"addressChangeLinked", "address_change_linked_to_claim">>,
      <<"highRiskCombination", "high_risk_combination">>>>

TextKeys ==
    <<<<"ageGroup", "age_group">>, <<"gender", "gender">>, <<"maritalStatus", "marital_status">>,
      <<"incomeBand", "income_band">>, <<"employmentStatus", "employment_status">>,
      <<"deductibleLevel", "deductible_level">>, <<"vehicleCategory", "vehicle_category">>,
      <<"vehiclePriceRange", "vehicle_price_range">>, <<"accidentArea", "accident_area">>,
      <<"weatherCondition", "weather_condition">>, <<"accidentTime", "accident_time">>,
      <<"agentType", "agent_type">>, <<"claimAmountRange", "claim_amount_range">>,
      <<"claimChannel", "claim_channel">>, <<"repairShopPattern", "repair_shop_pattern">>,
      <<"fraudType", "fraud_type">>, <<"region", "region">>>>

\* a form a valid submission is made of: every input filled in, a yes or a no
\* for each question, a number in each number input and a whole one where the
\* field is a count
ValidForm(fd) ==
    /\ \A k \in DOMAIN fd : fd[k] # ""
    /\ \A j \in 1..Len(BooleanKeys) : fd[BooleanKeys[j][1]] \in {"yes", "no"}
    /\ \A j \in 1..Len(DecimalKeys) : ~NumberOf(fd[DecimalKeys[j][1]]).nan
    /\ \A j \in 1..Len(IntegerKeys) :
         /\ ~NumberOf(fd[IntegerKeys[j][1]]).nan
         /\ NumberOf(fd[IntegerKeys[j][1]]).val % Scale = 0

\* the record holds under each field what the form holds under its input
SameValues(fd, data) ==
    /\ \A j \in 1..Len(TextKeys) : data[TextKeys[j][2]] = fd[TextKeys[j][1]]
    /\ \A j \in 1..Len(BooleanKeys) : data[BooleanKeys[j][2]] <=> fd[BooleanKeys[j][1]] = "yes"
    /\ \A j \in 1..Len(DecimalKeys) : data[DecimalKeys[j][2]] = NumberOf(fd[DecimalKeys[j][1]]).val
    /\ \A j \in 1..Len(IntegerKeys) :
         data[IntegerKeys[j][2]] * Scale = NumberOf(fd[IntegerKeys[j][1]]).val

\* C3 as stated: the row stored for a valid submission holds every value
\* unchanged: what the form held for a form submission, what the CSV line held
\* for a row of a batch upload.
C3_StoredUnchanged ==
    \A r \in {x \in 1..Len(dbClaims) : dbClaims[x].req > 0} :
        /\ (calls[dbClaims[r].req].src = "form" /\ ValidForm(calls[dbClaims[r].req].input))
             => SameValues(calls[dbClaims[r].req].input, dbClaims[r].data)
        /\ calls[dbClaims[r].req].src = "batch"
             => \A j \in 1..Len(requiredFields) :
                   dbClaims[r].data[requiredFields[j]]
                     = RowCell(dbClaims[r].data.rowNumber, requiredFields[j])

\* C9: a predictFraud request is issued only after the createClaim request of
\* the same submission has succeeded, from the form and from the batch upload;
\* a createClaim that is in flight or has failed is followed by no predictFraud.
C9_PredictAfterCreate ==
    \A k \in 1..Len(calls) :
        /\ calls[k].op = "predictFraud"
             => /\ calls[k].of < k
                /\ calls[calls[k].of].op = "createClaim"
                /\ calls[calls[k].of].src = calls[k].src
                /\ calls[calls[k].of].state = "200"
        /\ (calls[k].op = "createClaim" /\ calls[k].state # "200")
             => \A j \in 1..Len(calls) : calls[j].op = "predictFraud" => calls[j].of # k

\* the form's predictFraud is in flight after its createClaim succeeded
C9_Witness ==
    \E k \in Pending("form") :
        /\ calls[k].op = "predictFraud"
        /\ calls[calls[k].of].state = "200"
        /\ fpc = "predictFraud"

\* C10 as stated: the identifier a predictFraud request carries is the claim_id
\* the createClaim request of the same submission returned.
C10_PredictsReturnedId ==
    \A k \in 1..Len(calls) :
        (calls[k].op = "predictFraud" /\ calls[calls[k].of].state = "200")
            => calls[k].id = calls[calls[k].of].ret

\* ---------------------------------------------------- figures: properties
\* the claims of region r among the rows that existed when the Dashboard's
\* queries were answered, and those of them a prediction flags as fraud
ClaimsIn(r) == {k \in 1..Len(queried.claims) : queried.claims[k].data.region = r}

FlaggedIn(r) ==
    {k \in ClaimsIn(r) : ScoreOf(queried.preds, queried.claims[k].claim_id) >= 500}

\* C4 as stated: every figure the Dashboard shows is the count over the claim and
\* prediction rows that existed when it asked: the total, the fraud cases, the
\* high-risk claims, and for each region its claims and its fraud cases.
C4_FiguresFromRows ==
    (dashboardStats.loaded /\ ~dashboardLoading) =>
        /\ statsData.totalClaims = Len(queried.claims)
        /\ statsData.fraudCasesDetected
             = Cardinality(UNION {FlaggedIn(r) : r \in RegionsOf(queried.claims)})
        /\ statsData.highRiskClaims
             = Cardinality({k \in 1..Len(queried.claims) :
                              ScoreOf(queried.preds, queried.claims[k].claim_id) > 700})
        /\ DOMAIN regionData = RegionsOf(queried.claims)
        /\ \A r \in DOMAIN regionData :
             /\ regionData[r].claims = Cardinality(ClaimsIn(r))
             /\ regionData[r].fraudCases = Cardinality(FlaggedIn(r))

Rank(class) ==
    CASE class = "bg-risk-low" -> 1
      [] class = "bg-risk-medium" -> 2
      [] class = "bg-risk-high" -> 3

\* the rows of the Claims list that come with a score
ScoredRows == {k \in 1..Len(claimsData) : fetched[k].risk_level # ""}

\* C5: on the Claims list the bucket of the fraud-risk bar depends on the claim's
\* probability alone and never falls as the probability rises: of two claims the
\* one with the higher probability is in no lower bucket, claims of equal
\* probability are in the same bucket, and 0.75 is High, 0.5 Medium, 0.2 Low.
C5_BarMonotone ==
    /\ Len(fetched) = Len(claimsData)
    /\ \A k, j \in ScoredRows :
         fetched[k].fraud_probability <= fetched[j].fraud_probability
            => Rank(ClaimsTable[k]) <= Rank(ClaimsTable[j])
    /\ \A k \in ScoredRows :
         /\ fetched[k].fraud_probability = 750 => ClaimsTable[k] = "bg-risk-high"
         /\ fetched[k].fraud_probability = 500 => ClaimsTable[k] = "bg-risk-medium"
         /\ fetched[k].fraud_probability = 200 => ClaimsTable[k] = "bg-risk-low"

\* the list shows a claim scored 0.2 with a Low bar and one scored 0.75 with a High bar
C5_Witness ==
    /\ ~claimsLoading
    /\ \E k, j \in ScoredRows :
         /\ fetched[k].fraud_probability = 200 /\ ClaimsTable[k] = "bg-risk-low"
         /\ fetched[j].fraud_probability = 750 /\ ClaimsTable[j] = "bg-risk-high"

\* ------------------------------------------------ validation: properties
\* C11 as stated: the new-claim form validates its required fields: a form with
\* an empty input is rejected by submitClaim, so no createClaim request carries a
\* form with an empty input and no stored row comes from one.
C11_NoBlankFormSent ==
    /\ \A k \in 1..Len(calls) :
         (calls[k].src = "form" /\ calls[k].op = "createClaim")
            => \A key \in DOMAIN calls[k].input : calls[k].input[key] # ""
    /\ \A r \in {x \in 1..Len(dbClaims) : dbClaims[x].req > 0} :
         calls[dbClaims[r].req].src = "form"
            => \A key \in DOMAIN calls[dbClaims[r].req].input :
                  calls[dbClaims[r].req].input[key] # ""

\* the characters of a number in decimal notation: an optional sign, digits and
\* at most one decimal point, with nothing before or after them
IsNumeral(cs) ==
    /\ \E k \in 1..Len(Unsigned(cs)) : IsDigit(Unsigned(cs)[k])
    /\ \A k \in 1..Len(Unsigned(cs)) : IsDigit(Unsigned(cs)[k]) \/ Unsigned(cs)[k] = "."
    /\ Cardinality({k \in 1..Len(Unsigned(cs)) : Unsigned(cs)[k] = "."}) <= 1

\* the cell of a numeric column holds something that is no number
NotANumber(line, f) == CellOf(line, f) # "" /\ ~IsNumeral(Spell(CellOf(line, f)))

\* the cell of a boolean column holds something other than true or false
NotABoolean(line, f) == CellOf(line, f) \notin {"", "true", "false"}

NumericFields == IntegerFields \o DecimalFields

\* the typed columns of a line whose cell is not of the column's type
BadCells(line) ==
    {NumericFields[k] : k \in {j \in 1..Len(NumericFields) : NotANumber(line, NumericFields[j])}}
       \cup {BooleanFields[k] : k \in {j \in 1..Len(BooleanFields) : NotABoolean(line, BooleanFields[j])}}

\* the required columns of a line whose cell is empty
EmptyCells(line) ==
    {requiredFields[k] : k \in {j \in 1..Len(requiredFields) : CellOf(line, requiredFields[j]) = ""}}

\* what validateClaim returns for the row a line parses to
MessagesOf(line) == validateClaim(ParseRow(requiredFields, line, 1))

LineFacts ==
    [line \in CandidateLines \ {ln \in CandidateLines : IsBlankLine(ln)} |->
        [bad |-> BadCells(line), empty |-> EmptyCells(line), messages |-> MessagesOf(line)]]

FactsOf(i) == LineFacts[disk.lines[i + 1]]

MissingMessages(msgs, f) ==
    Cardinality({k \in 1..Len(msgs) : msgs[k] = <<"Missing required field", f>>})

\* C12 as stated: for every row of the uploaded file validateClaim returns one
\* 'Missing required field' message per required field that is absent or empty
\* and none for a field that is present; the row's result entry carries the whole
\* list; and the list is empty exactly when every required field is present and
\* every typed field holds a value of its type.
C12_MessagesExact ==
    \A i \in RowNumbers :
        /\ \A k \in 1..Len(requiredFields) :
             MissingMessages(FactsOf(i).messages, requiredFields[k])
                = IF requiredFields[k] \in FactsOf(i).empty THEN 1 ELSE 0
        /\ (FactsOf(i).messages = <<>>)
              <=> (FactsOf(i).empty = {} /\ FactsOf(i).bad = {})
        /\ (RunShown /\ FactsOf(i).messages # <<>>)
              => \A k \in EntriesOf(i) : uploadResults[k].message = FactsOf(i).messages

\* C13 as stated: in a finished run, a row with a numeric cell that holds no
\* number, or a boolean cell that holds neither true nor false, has an 'error'
\* entry whose message names that field, and createClaim was never called for it.
C13_IllTypedRejected ==
    RunShown =>
        \A i \in RowNumbers : \A f \in FactsOf(i).bad :
            /\ RowCalls("createClaim", i) = {}
            /\ \E k \in EntriesOf(i) :
                 /\ uploadResults[k].status = "error"
                 /\ \E j \in 1..Len(uploadResults[k].message) :
                      uploadResults[k].message[j][2] = f

\* ------------------------------------------------ apiService: properties
PendingRequest(k) == reqs[k].phase \in {"fetch", "body"}

\* C14 as stated: every request made through apiService is aborted after
\* REQUEST_TIMEOUT (30000 ms), so none stays pending for longer than that.
C14_NoneOverdue ==
    \A k \in 1..Len(reqs) : PendingRequest(k) => clock - reqs[k].at <= REQUEST_TIMEOUT

\* the status the failure of request k is to carry: the HTTP status of a response
\* that is not 2xx, 408 after a timeout, 0 after a network failure or any other
StatusDue(k) ==
    CASE reqs[k].cause = "http" -> reqs[k].http
      [] reqs[k].cause = "timeout" -> 408
      [] OTHER -> 0

\* C15 as stated: every failure of an apiService operation is an ApiError whose
\* status is the HTTP status for a response that is not 2xx, 408 for a timeout
\* and 0 for a network or other failure.
C15_FailuresAreApiErrors ==
    \A k \in 1..Len(reqs) :
        reqs[k].phase = "rejected" => reqs[k].error = ApiError(StatusDue(k))

\* --------------------------------------------------- Reports: properties
\* the fetchReportsData calls the timer of the effect made
TimerFetches == {k \in 1..Len(fetches) : fetches[k].by = "timer"}

\* the j-th run of the effect is the last of its burst: no run follows it within
\* the delay
LastOfBurst(j) == j = Len(changes) \/ changes[j + 1] - changes[j] >= DebounceDelay

FetchesAt(t) == {k \in TimerFetches : fetches[k].at = t}

\* C16: every call the timer makes comes 300 ms after the last filter change of
\* a burst; once 300 ms have passed since the last change of a burst, exactly one
\* such call was made for it, and never more than one; the only timer pending is
\* the one of the latest change.
C16_OneFetchPerBurst ==
    /\ \A k \in TimerFetches :
          \E j \in 1..Len(changes) :
              LastOfBurst(j) /\ fetches[k].at = changes[j] + DebounceDelay
    /\ \A j \in 1..Len(changes) :
          /\ Cardinality(FetchesAt(changes[j] + DebounceDelay)) <= 1
          /\ (LastOfBurst(j) /\ clock > changes[j] + DebounceDelay)
                => Cardinality(FetchesAt(changes[j] + DebounceDelay)) = 1
    /\ \A t \in timers : t = changes[Len(changes)] + DebounceDelay

\* two filter changes less than 300 ms apart, and the call made 300 ms after
\* the second
C16_Witness ==
    \E j \in 2..(Len(changes) - 1) :
        /\ changes[j + 1] - changes[j] < DebounceDelay
        /\ changes[j + 1] > changes[j]
        /\ FetchesAt(changes[j + 1] + DebounceDelay) # {}
        /\ FetchesAt(changes[j] + DebounceDelay) = {}

\* ------------------------------------------------ upload size: properties
\* C17 as stated: a batch upload processes at most 1000 claims: a finished run
\* shows entries for no more than UploadLimit rows.
C17_AtMostLimit == RunShown => Len(uploadResults) <= UploadLimit

\* ------------------------------------------------------ views: properties
\* the label that names a risk level of the back end
LabelFor(risk_level) ==
    CASE risk_level = "HIGH RISK" -> "High Risk"
      [] risk_level = "MEDIUM RISK" -> "Medium Risk"
      [] risk_level = "LOW RISK" -> "Low Risk"

\* C18 as stated: on the Claims list and on the Dashboard the badge of a scored
\* claim carries the label of the claim's risk level, and a claim whose status is
\* 'Flagged' never shows 'Low Risk'.
C18_BadgeMatchesLevel ==
    /\ \A k \in ScoredRows : RiskColumn[k] = LabelFor(fetched[k].risk_level)
    /\ \A k \in 1..Len(claimsData) : claimsData[k].status = "Flagged" => RiskColumn[k] # "Low Risk"
    /\ \A k \in 1..Len(RecentBadges) :
          dashboardClaims[k].risk_level # ""
             => RecentBadges[k] = LabelFor(dashboardClaims[k].risk_level)

\* C19 as stated: the percentage Recent Claims Activity shows for a claim is the
\* claim's fraud probability times 100, and any two renders of the Dashboard
\* show the same percentage and the same amount for it.
C19_SameOnEveryRender ==
    \A r1, r2 \in RandomDraws(Len(RecentBadges)) :
        \A k \in 1..Len(RecentBadges) :
            /\ recentClaims(r1)[k].fraudProbability * 10 = dashboardClaims[k].fraud_probability
            /\ recentClaims(r1)[k].fraudProbability = recentClaims(r2)[k].fraudProbability
            /\ recentClaims(r1)[k].amount = recentClaims(r2)[k].amount

\* C20 as stated: the fraud-risk bar of a row of the Claims list is High exactly
\* when the claim's probability is above 0.7, Medium exactly when it is above 0.4
\* and at most 0.7, and Low otherwise.
C20_BarByProbability ==
    \A k \in 1..Len(claimsData) :
        ClaimsTable[k] = IF fetched[k].fraud_probability > 700 THEN "bg-risk-high"
                         ELSE IF fetched[k].fraud_probability > 400 THEN "bg-risk-medium"
                         ELSE "bg-risk-low"

\* ------------------------------------------------------ form: properties
\* the requests of the form
FormCalls(op) == {k \in 1..Len(calls) : calls[k].src = "form" /\ calls[k].op = op}

\* C22: currentStep is always one of the six steps; a step of nextStep or
\* prevStep moves it by one and leaves formData as it is; a submission starts
\* only on the last step.
C22_StepsInRange ==
    /\ [](currentStep \in 0..(Len(steps) - 1))
    /\ [][/\ currentStep' # currentStep
               => /\ formData' = formData
                  /\ currentStep' - currentStep \in {1, 0 - 1}
          /\ (/\ Len(calls') > Len(calls)
              /\ calls'[Len(calls')].src = "form"
              /\ calls'[Len(calls')].op = "createClaim")
               => currentStep = Len(steps) - 1]_vars

\* the form is filled in, on its last step, and was submitted from there
C22_Witness ==
    /\ currentStep = Len(steps) - 1
    /\ formData # EmptyForm
    /\ FormCalls("createClaim") # {}

\* the submitClaim run in progress: none, or one
InFlight == Pending("form")

\* the latest request of the form
LastFormCall == CHOOSE k \in 1..Len(calls) : \A j \in 1..Len(calls) : j <= k

\* C23: at most one submission is in flight; isSubmitting is true exactly while
\* one is; when none is and the form was submitted, submissionResult shows the
\* outcome of the latest run: success exactly when its last request resolved.
C23_OneSubmission ==
    page = "NewClaim" =>
        /\ Cardinality(InFlight) <= 1
        /\ isSubmitting <=> InFlight # {}
        /\ isSubmitting <=> fpc # "idle"
        /\ (InFlight = {} /\ calls # <<>>)
              => /\ submissionResult.shown
                 /\ submissionResult.success
                       <=> (calls[LastFormCall].op = "predictFraud"
                            /\ Resolves(calls[LastFormCall].state))

\* a second submission is in flight after a first one has failed
C23_Witness ==
    /\ Cardinality(FormCalls("createClaim")) = 2
    /\ Cardinality(InFlight) = 1
    /\ isSubmitting


\* the rows the back end stored for the submission that createClaim request k began
StoredBy(k) == {j \in 1..Len(dbClaims) : dbClaims[j].req = k}

\* the rows the back end stored for the form
StoredForForm == UNION {StoredBy(k) : k \in FormCalls("createClaim")}

\* the createClaim request of the latest submission
LastSubmission == CHOOSE k \in FormCalls("createClaim") : \A j \in FormCalls("createClaim") : j <= k

\* C24: when a submission has ended with success = false the back end holds no
\* row of that submission, and the submissions of one form leave at most one row.
C24_FailureStoresNothing ==
    /\ (/\ page = "NewClaim"
        /\ submissionResult.shown
        /\ ~submissionResult.success) => StoredBy(LastSubmission) = {}
    /\ Cardinality(StoredForForm) <= 1

\* two submissions at different times have the same claim_id
SameIdTwice ==
    \E j, k \in FormCalls("createClaim") : j < k /\ calls[j].id = calls[k].id

\* C25: two submissions made at different values of Date.now() carry different
\* claim_ids.
C25_IdsDiffer == ~SameIdTwice


\* ------------------------------------------- Promise.all: properties
\* the k-th call of fetchReportsData settles in this step
ReportsRunEnds(k) == fetches[k].state = "pending" /\ fetches'[k].state # "pending"

\* C21: a run of fetchDashboardData or fetchReportsData in which a request failed
\* leaves every data state as it was, a run in which all requests succeeded
\* replaces every one of them, and both end with loading false.
C21_AllOrNothing ==
    /\ [](dpc = "failed" => /\ dashboardStats = NoStats
                            /\ dashboardClaims = <<>>
                            /\ ~dashboardLoading)
    /\ [](dpc = "done" => /\ dashboardStats = GetDashboardStats(queried.claims, queried.preds)
                          /\ dashboardClaims = GetClaims(queried.claims, queried.preds)
                          /\ ~dashboardLoading)
    /\ [][\A k \in DOMAIN fetches :
            ReportsRunEnds(k) =>
               /\ ~reportsLoading'
               /\ IF fetches'[k].failed
                  THEN UNCHANGED <<reportData, regionalData, summaryStats>>
                  ELSE reportData' = k /\ regionalData' = k /\ summaryStats' = k]_vars

\* a run of fetchReportsData has failed after one that succeeded, and the page
\* still holds the data of the earlier run
C21_Witness ==
    \E j, k \in DOMAIN fetches :
       /\ j < k
       /\ fetches[j].state = "resolved"
       /\ fetches[k].failed
       /\ reportData = j /\ regionalData = j /\ summaryStats = j
       /\ ~reportsLoading


\* ------------------------------------------------------ Claims: filters
\* C26: when no fetchClaims is in flight and the request made last, the one for
\* the filters now selected, was answered, the list holds that answer: not the
\* answer to an earlier request, and not one for other filters.
C26_ShowsLatestResponse ==
    (/\ page = "ClaimsFilters"
     /\ claimFetches = <<>>
     /\ claimsLatest = "resolved")
        => /\ claimsShown.latest
           /\ claimsShown.of = ClaimParams(claimsRegion, claimsRisk)

\* ----------------------------------------------------- Reports: fetches
\* the calls of fetchReportsData that have not settled
ReportsInFlight == {k \in DOMAIN fetches : fetches[k].state = "pending"}

\* C27: loading is true while a call of fetchReportsData is in flight, and no
\* two calls are in flight together.
C27_LoadingWhileFetching ==
    /\ ReportsInFlight # {} => reportsLoading
    /\ Cardinality(ReportsInFlight) <= 1

\* the filters as a request would carry them
SelectedQuery == [period |-> selectedPeriod, region |-> selectedRegion, risk |-> selectedRisk]

\* C29: when no filter change is waiting for its timer, the three requests of
\* the latest run of fetchReportsData carry the period, region and risk that are
\* selected.
C29_RequestsCarryFilters ==
    (timers = {} /\ fetches # <<>>)
        => \A i \in DOMAIN fetches[Len(fetches)].sent :
              fetches[Len(fetches)].sent[i].query = SelectedQuery


\* ---------------------------------------------- upload results: properties
\* the claims of the file that is selected
SelectedClaims == claimsOf(selectedFile.lines)

\* C28: while results are shown a file is selected and the results are those of
\* processing it, one entry for each of its claims in order; and no two requests
\* of processBatchUpload wait together.
C28_ResultsOfSelectedFile ==
    /\ RunShown => /\ selectedFile # NoFile
                   /\ Len(uploadResults) = Len(SelectedClaims)
                   /\ \A k \in DOMAIN uploadResults :
                         uploadResults[k].row = SelectedClaims[k].rowNumber
    /\ Cardinality(Pending("batch")) <= 1
====
